---- MODULE Spec2Model ----
(***************************************************************************)
(* A model of rr's command-line front end (src/src/main.cc): the event     *)
(* dump (dump_events_matching, start_dumping), the option parsers          *)
(* (parse_args and the per-command parsers) and the startup sequence of    *)
(* main.                                                                   *)
(*                                                                         *)
(* C strings are tuples of one-character strings, so that the conversions  *)
(* the code applies to them (sscanf "%u-%u", atoi, getopt) are computed    *)
(* character by character.                                                 *)
(***************************************************************************)
EXTENDS Integers, Sequences, FiniteSets, TLC

VARIABLES
    \* ---- the dump session (start_dumping) ----
    frames,     \* the trace file: the global_time of each frame, in file order
    pos,        \* TraceIfstream cursor: how many frames have been read
    out,        \* the frames dumped so far (their global_time), in output order
    dargv,      \* start_dumping's argv: <<trace_dir, spec, spec, ...>>
    di,         \* start_dumping's loop index i (0-based, as in the code)
    dpc         \* position in start_dumping: "start", "loop", "done", "idle"

VARIABLES
    \* ---- the process (main) ----
    argv,           \* the command line; argv[k + 1] is C's argv[k]
    flags,          \* struct flags
    argi,           \* main's argi, the index of the first positional argument
    mpc,            \* position in main
    status,         \* "running", an exit status, or "fatal"
    fatal_at,       \* the function in which FATAL() ended the process
    usage,          \* print_usage() was called
    ptrace_file,    \* what read_int_file found in .../yama/ptrace_scope
    uname_release,  \* what uname() reported: <<major, minor>> or "fail"
    affinity,       \* the CPUs the process may run on: "any" or "cpu0"
    env_syscallbuf, \* the syscall-buffer-enabled environment variable
    session,        \* the session start() started: "none", RECORD, ...
    libc_permutes   \* this libc's getopt permutes argv for "r" (see DumpLoop)

dvars == <<frames, pos, out, dargv, di, dpc>>

mvars == <<argv, flags, argi, mpc, status, fatal_at, usage, ptrace_file,
           uname_release, affinity, env_syscallbuf, session, libc_permutes>>

vars == <<frames, pos, out, dargv, di, dpc,
          argv, flags, argi, mpc, status, fatal_at, usage, ptrace_file,
          uname_release, affinity, env_syscallbuf, session, libc_permutes>>

(***************************************************************************)
(* Bounds of the model.                                                    *)
(***************************************************************************)
\* The largest event number of a trace.  The traces are drawn from the
\* window MinTime .. MaxTime, which straddles the one-digit / two-digit
\* boundary so that the decimal conversions are exercised on both.
MaxTime == 10
MinTime == MaxTime - 2
\* The longest trace and the largest number of event specs explored.
MaxFrames == 3
MaxSpecs == 2
\* The largest number of options after the command: on the command lines
\* that main runs through, and on those that parse_args alone is run on.
MaxOpts == 2
MaxParseOpts == 2

(***************************************************************************)
(* C library conversions.                                                  *)
(***************************************************************************)
\* A uint32_t is represented by the int32_t with the same bit pattern (the
\* model checker's integers are 32 bits wide): 0 .. 2^31-1 stand for
\* themselves and a negative n stands for 2^32 + n.  UInt32Max is the
\* pattern of numeric_limits<uint32_t>::max(), and ULe and ULt are the
\* unsigned comparisons.
UInt32Max == 0 - 1

ULt(a, b) == IF (a < 0) = (b < 0) THEN a < b ELSE b < 0

ULe(a, b) == a = b \/ ULt(a, b)

Digits == {"0", "1", "2", "3", "4", "5", "6", "7", "8", "9"}

DigitVal(c) ==
    CASE c = "0" -> 0 [] c = "1" -> 1 [] c = "2" -> 2 [] c = "3" -> 3
      [] c = "4" -> 4 [] c = "5" -> 5 [] c = "6" -> 6 [] c = "7" -> 7
      [] c = "8" -> 8 [] c = "9" -> 9

IsSpace(c) == c = " "

\* The first index >= i of s that holds no white space (Len(s)+1 if none).
RECURSIVE SkipSpace(_, _)
SkipSpace(s, i) ==
    IF i <= Len(s) /\ IsSpace(s[i]) THEN SkipSpace(s, i + 1) ELSE i

\* The run of decimal digits of s from index i: its value and the index after it.
RECURSIVE ScanDigits(_, _, _)
ScanDigits(s, i, acc) ==
    IF i <= Len(s) /\ s[i] \in Digits
    THEN ScanDigits(s, i + 1, acc * 10 + DigitVal(s[i]))
    ELSE [val |-> acc, next |-> i]

\* atoi(3): white space, an optional sign, then digits up to the first
\* character that is none; 0 when there is no digit.
atoi(s) ==
    LET k == SkipSpace(s, 1)
        signed == k <= Len(s) /\ s[k] \in {"+", "-"}
        r == ScanDigits(s, IF signed THEN k + 1 ELSE k, 0)
    IN  IF signed /\ s[k] = "-" THEN 0 - r.val ELSE r.val

\* Conversion of an int to uint32_t: the bit pattern is kept.
ToUInt32(n) == n

\* One %u conversion of scanf at index i of s: white space, an optional
\* sign, at least one digit; a negative number is negated modulo 2^32.
ScanU(s, i) ==
    LET k == SkipSpace(s, i)
        signed == k <= Len(s) /\ s[k] \in {"+", "-"}
        j == IF signed THEN k + 1 ELSE k
        r == ScanDigits(s, j, 0)
    IN  [ok   |-> r.next > j,
         eof  |-> k > Len(s),
         val  |-> IF signed /\ s[k] = "-" THEN ToUInt32(0 - r.val)
                  ELSE ToUInt32(r.val),
         next |-> r.next]

\* sscanf(s, "%u-%u", &start, &end): the number of conversions made (EOF,
\* -1, when the input ends before the first) and the values stored; a
\* variable not converted keeps the value it had.
sscanf_range(s, start0, end0) ==
    LET a == ScanU(s, 1) IN
    IF ~a.ok
    THEN [n |-> IF a.eof THEN -1 ELSE 0, start |-> start0, end |-> end0]
    ELSE IF ~(a.next <= Len(s) /\ s[a.next] = "-")
    THEN [n |-> 1, start |-> a.val, end |-> end0]
    ELSE LET b == ScanU(s, a.next + 1) IN
         IF ~b.ok
         THEN [n |-> 1, start |-> a.val, end |-> end0]
         ELSE [n |-> 2, start |-> a.val, end |-> b.val]

(***************************************************************************)
(* The trace stream.                                                       *)
(***************************************************************************)
\* TraceIfstream::good(): frames remain to be read.
good(fs, p) == p < Len(fs)

\* trace >> frame: the next frame, in file order.
ReadFrame(fs, p) == fs[p + 1]

(***************************************************************************)
(* dump_events_matching.                                                   *)
(***************************************************************************)
NullSpec == <<"<null>">>

\* The interval [start, end] a spec selects.
ParseSpecBroken(spec) ==
    IF spec = NullSpec THEN [start |-> 0, end |-> UInt32Max]
    ELSE LET r == sscanf_range(spec, 0, UInt32Max)
         IN  [start |-> r.start, end |-> r.end]

ParseSpec(spec) ==
    IF spec = NullSpec THEN [start |-> 0, end |-> UInt32Max]
    ELSE LET r == sscanf_range(spec, 0, UInt32Max) IN
         IF 2 > r.n
         THEN [start |-> ToUInt32(atoi(spec)), end |-> ToUInt32(atoi(spec))]
         ELSE [start |-> r.start, end |-> r.end]

\* The test that decides whether a frame is dumped.
InRangeBroken(start, end, t) == ULt(start, t) /\ ULe(t, end)

InRange(start, end, t) == ULe(start, t) /\ ULe(t, end)

\* The scan loop: read frames while the stream is good; stop at (and
\* consume) the first frame past end; dump the frames in range.
RECURSIVE ScanLoop(_, _, _, _, _)
ScanLoop(fs, p, o, start, end) ==
    IF ~good(fs, p) THEN [pos |-> p, out |-> o]
    ELSE LET t == ReadFrame(fs, p) IN
         IF ULt(end, t) THEN [pos |-> p + 1, out |-> o]
         ELSE ScanLoop(fs, p + 1,
                       IF InRange(start, end, t) THEN Append(o, t) ELSE o,
                       start, end)

dump_events_matching(fs, p, o, spec) ==
    LET r == ParseSpec(spec) IN ScanLoop(fs, p, o, r.start, r.end)

(***************************************************************************)
(* start_dumping.                                                          *)
(***************************************************************************)
argcD == Len(dargv)

\* Open the trace and print the header; with no spec, dump every event.
StartDumping ==
    /\ dpc = "start"
    /\ IF argcD = 1
       THEN LET r == dump_events_matching(frames, 0, <<>>, NullSpec) IN
            /\ pos' = r.pos
            /\ out' = r.out
            /\ di' = di
            /\ dpc' = "done"
       ELSE /\ pos' = 0
            /\ out' = <<>>
            /\ di' = 1
            /\ dpc' = "loop"
    /\ UNCHANGED <<frames, dargv>>
    /\ UNCHANGED mvars

\* One iteration of the loop over the specs: argv[i] is dargv[i + 1].
DumpSpecArg ==
    /\ dpc = "loop"
    /\ di < argcD
    /\ LET r == dump_events_matching(frames, pos, out, dargv[di + 1]) IN
       /\ pos' = r.pos
       /\ out' = r.out
    /\ di' = di + 1
    /\ UNCHANGED <<frames, dargv, dpc>>
    /\ UNCHANGED mvars

\* The loop ends.
FinishDumping ==
    /\ dpc = "loop"
    /\ ~(di < argcD)
    /\ dpc' = "done"
    /\ UNCHANGED <<frames, pos, out, dargv, di>>
    /\ UNCHANGED mvars

(***************************************************************************)
(* struct flags and getopt.                                                *)
(***************************************************************************)
RECORD == "RECORD"
REPLAY == "REPLAY"
DUMP_EVENTS == "DUMP_EVENTS"

\* The scheduler's default budgets (positive; set in a header of the
\* recorder).
DEFAULT_MAX_RBC == 250000
DEFAULT_MAX_EVENTS == 10

\* numeric_limits<decltype(flags->goto_event)>::max(), for a 32-bit field.
GotoEventMax == 2147483647

\* The number of signals of the platform, from <signal.h>.
NSIG == 65

MAX(a, b) == IF a > b THEN a ELSE b
MIN(a, b) == IF a < b THEN a ELSE b

\* An enumeration field that still holds the 0 of a zeroed object, and the
\* two kinds of value of a field that holds either a named constant of
\* the program or a number from the command line.
ZeroEnum == "0"
IntVal(n) == <<"int", n>>
Named(c) == <<c>>

\* rr_flags_for_init(): the flags start as a zeroed static object.
ZeroFlags ==
    [option |-> ZeroEnum, max_rbc |-> 0, max_events |-> 0, ignore_sig |-> 0,
     checksum |-> IntVal(0), dbgport |-> 0, dump_at |-> IntVal(0),
     dump_on |-> IntVal(0),
     redirect |-> FALSE, use_syscall_buffer |-> FALSE,
     suppress_performance_warnings |-> FALSE, cpu_unbound |-> FALSE,
     force_enable_debugger |-> FALSE, check_cached_mmaps |-> FALSE,
     mark_stdio |-> FALSE, verbose |-> FALSE, wait_secs |-> 0,
     goto_event |-> 0, dont_launch_debugger |-> FALSE,
     target_process |-> 0, process_created_how |-> ZeroEnum,
     gdb_command_file_path |-> <<>>, raw_dump |-> FALSE,
     syscall_buffer_lib_path |-> <<>>]

\* The result of a getopt call: the option character ("-1" at the end of
\* the options, "?" for an error), its argument, and getopt's own state
\* (optind, and nextchar: the index in the current element of the next
\* option character of a cluster such as -bn, 0 when a new element starts).
GetoptResult(c, arg, oi, nc) ==
    [opt |-> c, optarg |-> arg, optind |-> oi, nextchar |-> nc]

\* The option character at index k of element av[oi + 1].  os names the
\* characters of the option string: those that take no argument and those
\* followed by ':'.
GetoptChar(av, oi, k, os) ==
    LET e == av[oi + 1]
        c == e[k]
        last == k = Len(e)
        oiNext == IF last THEN oi + 1 ELSE oi
        ncNext == IF last THEN 0 ELSE k + 1
    IN  IF c \in os.noarg THEN GetoptResult(c, <<>>, oiNext, ncNext)
        ELSE IF c \notin os.witharg THEN GetoptResult("?", <<>>, oiNext, ncNext)
        ELSE IF ~last THEN GetoptResult(c, SubSeq(e, k + 1, Len(e)), oi + 1, 0)
        ELSE IF oi + 1 < Len(av) THEN GetoptResult(c, av[oi + 2], oi + 2, 0)
        ELSE GetoptResult("?", <<>>, oi + 1, 0)

\* getopt_long in the order-requiring mode ("+"): the options end at the
\* end of argv, at "--" (skipped) and at the first element that is no
\* option.  Only the short spellings of the options are modelled.
getopt_long(av, oi, nc, os) ==
    IF nc # 0 THEN GetoptChar(av, oi, nc, os)
    ELSE IF oi >= Len(av) THEN GetoptResult("-1", <<>>, oi, 0)
    ELSE IF av[oi + 1] = <<"-", "-">> THEN GetoptResult("-1", <<>>, oi + 1, 0)
    ELSE IF Len(av[oi + 1]) < 2 \/ av[oi + 1][1] # "-"
    THEN GetoptResult("-1", <<>>, oi, 0)
    ELSE GetoptChar(av, oi, 2, os)

\* What a parser returns: its return value, the flags, and argv (which a
\* permuting getopt reorders).
Parsed(r, f, av) == [ret |-> r, flags |-> f, argv |-> av]

(***************************************************************************)
(* parse_record_args.                                                      *)
(***************************************************************************)
RecordOpts == [noarg |-> {"b", "n"}, witharg |-> {"c", "e", "i"}]

\* case 'c' and case 'e': the budgets.
RecordOptCUnclamped(f, optarg) == [f EXCEPT !.max_rbc = atoi(optarg)]

RecordOptC(f, optarg) == [f EXCEPT !.max_rbc = MAX(1, atoi(optarg))]

RecordOptE(f, optarg) == [f EXCEPT !.max_events = MAX(1, atoi(optarg))]

\* case 'i'.
RecordOptINoUpperClamp(f, optarg) ==
    [f EXCEPT !.ignore_sig = MAX(1, atoi(optarg))]

RecordOptI(f, optarg) ==
    [f EXCEPT !.ignore_sig = MIN(NSIG - 1, MAX(1, atoi(optarg)))]

\* case 'b' and case 'n'.
RecordOptB(f) == [f EXCEPT !.use_syscall_buffer = TRUE]

RecordOptN(f) == [f EXCEPT !.use_syscall_buffer = FALSE]

RECURSIVE RecordLoop(_, _, _, _)
RecordLoop(av, oi, nc, f) ==
    LET g == getopt_long(av, oi, nc, RecordOpts) IN
    CASE g.opt = "-1" -> Parsed(g.optind, f, av)
      [] g.opt = "b" -> RecordLoop(av, g.optind, g.nextchar, RecordOptB(f))
      [] g.opt = "c" ->
            RecordLoop(av, g.optind, g.nextchar, RecordOptC(f, g.optarg))
      [] g.opt = "e" ->
            RecordLoop(av, g.optind, g.nextchar, RecordOptE(f, g.optarg))
      [] g.opt = "i" ->
            RecordLoop(av, g.optind, g.nextchar, RecordOptI(f, g.optarg))
      [] g.opt = "n" -> RecordLoop(av, g.optind, g.nextchar, RecordOptN(f))
      [] OTHER -> Parsed(-1, f, av)

parse_record_args(cmdi, av, f) == RecordLoop(av, cmdi + 1, 0, f)

(***************************************************************************)
(* parse_replay_args.                                                      *)
(***************************************************************************)
ReplayOpts == [noarg |-> {"a", "q"}, witharg |-> {"f", "g", "p", "s", "x"}]

\* case 'a'.
ReplayOptA(f) ==
    [f EXCEPT !.goto_event = GotoEventMax, !.dont_launch_debugger = TRUE]

\* case 'g'.
ReplayOptG(f, optarg) == [f EXCEPT !.goto_event = atoi(optarg)]

\* case 's'.
ReplayOptS(f, optarg) ==
    [f EXCEPT !.dbgport = atoi(optarg), !.dont_launch_debugger = TRUE]

RECURSIVE ReplayLoop(_, _, _, _)
ReplayLoop(av, oi, nc, f) ==
    LET g == getopt_long(av, oi, nc, ReplayOpts) IN
    CASE g.opt = "-1" -> Parsed(g.optind, f, av)
      [] g.opt = "a" -> ReplayLoop(av, g.optind, g.nextchar, ReplayOptA(f))
      [] g.opt = "f" ->
            ReplayLoop(av, g.optind, g.nextchar,
                       [f EXCEPT !.target_process = atoi(g.optarg),
                                 !.process_created_how = "CREATED_FORK"])
      [] g.opt = "g" ->
            ReplayLoop(av, g.optind, g.nextchar, ReplayOptG(f, g.optarg))
      [] g.opt = "p" ->
            ReplayLoop(av, g.optind, g.nextchar,
                       [f EXCEPT !.target_process = atoi(g.optarg),
                                 !.process_created_how = "CREATED_EXEC"])
      [] g.opt = "q" ->
            ReplayLoop(av, g.optind, g.nextchar, [f EXCEPT !.redirect = FALSE])
      [] g.opt = "s" ->
            ReplayLoop(av, g.optind, g.nextchar, ReplayOptS(f, g.optarg))
      [] g.opt = "x" ->
            ReplayLoop(av, g.optind, g.nextchar,
                       [f EXCEPT !.gdb_command_file_path = g.optarg])
      [] OTHER -> Parsed(-1, f, av)

parse_replay_args(cmdi, av, f) == ReplayLoop(av, cmdi + 1, 0, f)

(***************************************************************************)
(* parse_dump_args.                                                        *)
(***************************************************************************)
DumpOpts == [noarg |-> {"r"}, witharg |-> {}]

\* case 'r'.
DumpOptR(f) == [f EXCEPT !.raw_dump = TRUE]

\* The loop of parse_dump_args when getopt requires order.
RECURSIVE DumpLoop(_, _, _, _)
DumpLoop(av, oi, nc, f) ==
    LET g == getopt_long(av, oi, nc, DumpOpts) IN
    CASE g.opt = "-1" -> Parsed(g.optind, f, av)
      [] g.opt = "r" -> DumpLoop(av, g.optind, g.nextchar, DumpOptR(f))
      [] OTHER -> Parsed(-1, f, av)

IsOptionElement(e) == Len(e) >= 2 /\ e[1] = "-"

\* The loop of parse_dump_args when getopt permutes: every option element
\* up to "--" is parsed, the elements that are no options are moved behind
\* them, and optind ends at the first of those.  k is the index in av of
\* the element looked at, opts and rest the option elements and the others
\* met so far.  (The option string holds no option with an argument.)
RECURSIVE DumpLoopPermute(_, _, _, _, _, _)
DumpLoopPermute(av, cmdi, k, opts, rest, f) ==
    LET done(o, r) ==
            Parsed(cmdi + 1 + Len(o), f, SubSeq(av, 1, cmdi + 1) \o o \o r)
    IN
    IF k > Len(av) THEN done(opts, rest)
    ELSE IF av[k] = <<"-", "-">>
    THEN done(Append(opts, av[k]), rest \o SubSeq(av, k + 1, Len(av)))
    ELSE IF ~IsOptionElement(av[k])
    THEN DumpLoopPermute(av, cmdi, k + 1, opts, Append(rest, av[k]), f)
    ELSE IF \E j \in 2 .. Len(av[k]) : av[k][j] \notin DumpOpts.noarg
    THEN Parsed(-1, f, av)
    ELSE DumpLoopPermute(av, cmdi, k + 1, Append(opts, av[k]), rest, DumpOptR(f))

\* The option string "r" has no leading "+".  glibc fixes the ordering at
\* the first getopt call of the process (parse_common_args', with "+") and
\* keeps requiring order; a libc that looks at every call's option string
\* permutes here.  permutes says which libc this is.
parse_dump_args(cmdi, av, f, permutes) ==
    IF permutes THEN DumpLoopPermute(av, cmdi, cmdi + 2, <<>>, <<>>, f)
    ELSE DumpLoop(av, cmdi + 1, 0, f)

(***************************************************************************)
(* parse_common_args.                                                      *)
(***************************************************************************)
CommonOpts ==
    [noarg |-> {"f", "k", "m", "s", "u", "v"}, witharg |-> {"c", "d", "t", "w"}]

\* case 'c': the checksum mode.
CommonOptC(f, optarg) ==
    [f EXCEPT !.checksum =
        IF optarg = <<"on-syscalls">> THEN Named("CHECKSUM_SYSCALL")
        ELSE IF optarg = <<"on-all-events">> THEN Named("CHECKSUM_ALL")
        ELSE IntVal(atoi(optarg))]

\* case 'u'.
CommonOptU(f) == [f EXCEPT !.cpu_unbound = TRUE]

RECURSIVE CommonLoop(_, _, _, _)
CommonLoop(av, oi, nc, f) ==
    LET g == getopt_long(av, oi, nc, CommonOpts)
        next(h) == CommonLoop(av, g.optind, g.nextchar, h)
    IN
    CASE g.opt = "-1" -> Parsed(g.optind, f, av)
      [] g.opt = "c" -> next(CommonOptC(f, g.optarg))
      [] g.opt = "d" -> next([f EXCEPT !.dump_on = IntVal(atoi(g.optarg))])
      [] g.opt = "f" -> next([f EXCEPT !.force_enable_debugger = TRUE])
      [] g.opt = "k" -> next([f EXCEPT !.check_cached_mmaps = TRUE])
      [] g.opt = "m" -> next([f EXCEPT !.mark_stdio = TRUE])
      [] g.opt = "s" -> next([f EXCEPT !.suppress_performance_warnings = TRUE])
      [] g.opt = "t" -> next([f EXCEPT !.dump_at = IntVal(atoi(g.optarg))])
      [] g.opt = "u" -> next(CommonOptU(f))
      [] g.opt = "v" -> next([f EXCEPT !.verbose = TRUE])
      [] g.opt = "w" -> next([f EXCEPT !.wait_secs = atoi(g.optarg)])
      [] OTHER -> Parsed(-1, f, av)

\* optind is 1 at the first getopt call of the process.
parse_common_args(av, f) == CommonLoop(av, 1, 0, f)

(***************************************************************************)
(* parse_args.                                                             *)
(***************************************************************************)
\* The defaults parse_args sets before it looks at the command line.
ArgDefaults(f) ==
    [f EXCEPT !.max_rbc = DEFAULT_MAX_RBC, !.max_events = DEFAULT_MAX_EVENTS,
              !.checksum = Named("CHECKSUM_NONE"), !.dbgport = -1,
              !.dump_at = Named("DUMP_AT_NONE"),
              !.dump_on = Named("DUMP_ON_NONE"), !.redirect = TRUE,
              !.use_syscall_buffer = TRUE,
              !.suppress_performance_warnings = FALSE]

\* The command word at argv[cmdi] and its parser.
ParseCommand(cmdi, av, f, permutes) ==
    LET cmd == av[cmdi + 1] IN
    IF cmd = <<"record">>
    THEN parse_record_args(cmdi, av, [f EXCEPT !.option = RECORD])
    ELSE IF cmd = <<"replay">>
    THEN parse_replay_args(cmdi, av, [f EXCEPT !.option = REPLAY])
    ELSE IF cmd = <<"dump">>
    THEN parse_dump_args(cmdi, av, [f EXCEPT !.option = DUMP_EVENTS], permutes)
    ELSE Parsed(-1, f, av)

parse_args(av, f0, permutes) ==
    LET c == parse_common_args(av, ArgDefaults(f0))
        cmdi == c.ret
    IN  IF 0 > cmdi THEN Parsed(-1, c.flags, av)
        ELSE IF 0 = cmdi \/ cmdi >= Len(av) THEN Parsed(-1, c.flags, av)
        ELSE ParseCommand(cmdi, av, c.flags, permutes)

(***************************************************************************)
(* main.                                                                   *)
(***************************************************************************)
argc == Len(argv)

\* FATAL(): the message is logged and the process ends abnormally.
Fatal(where) ==
    /\ status' = "fatal"
    /\ fatal_at' = where
    /\ mpc' = "exit"

\* `rr check-preload-lib' that reaches main: the preload library did not
\* load, and the process ends with _exit(EX_CONFIG).
CheckPreloadLib ==
    /\ mpc = "entry"
    /\ argc >= 2 /\ argv[2] = <<"check-preload-lib">>
    /\ status' = "EX_CONFIG"
    /\ mpc' = "exit"
    /\ UNCHANGED <<argv, flags, argi, fatal_at, usage, ptrace_file,
                   uname_release, affinity, env_syscallbuf, session,
                   libc_permutes>>
    /\ UNCHANGED dvars

\* argi = parse_args(argc, argv, flags).
MainParseArgs ==
    /\ mpc = "entry"
    /\ ~(argc >= 2 /\ argv[2] = <<"check-preload-lib">>)
    /\ LET r == parse_args(argv, flags, libc_permutes) IN
       /\ argi' = r.ret
       /\ flags' = r.flags
       /\ argv' = r.argv
    /\ mpc' = "parsed"
    /\ UNCHANGED <<status, fatal_at, usage, ptrace_file, uname_release,
                   affinity, env_syscallbuf, session, libc_permutes>>
    /\ UNCHANGED dvars

\* The test on argi: whether main prints the usage and returns 1.
\* |rr replay| is allowed to have no arguments.
BadArgsStrict(n, ai, f) == 0 > ai \/ n < ai \/ n <= ai

BadArgsNoError(n, ai, f) == n < ai \/ (REPLAY # f.option /\ n <= ai)

BadArgs(n, ai, f) ==
    0 > ai \/ n < ai \/ (REPLAY # f.option /\ n <= ai)

MainCheckArgs ==
    /\ mpc = "parsed"
    /\ IF BadArgs(argc, argi, flags)
       THEN /\ usage' = TRUE
            /\ status' = "1"
            /\ mpc' = "exit"
       ELSE /\ mpc' = "prereq"
            /\ UNCHANGED <<usage, status>>
    /\ UNCHANGED <<argv, flags, argi, fatal_at, ptrace_file, uname_release,
                   affinity, env_syscallbuf, session, libc_permutes>>
    /\ UNCHANGED dvars

\* What the environment can hold: the ptrace_scope file is absent, holds no
\* integer, or holds one; uname() fails or reports a release.
PtraceFiles == {<<"absent">>, <<"garbage">>} \cup {<<"int", v>> : v \in 0 .. 2}

Releases == {<<2, 6>>, <<3, 3>>, <<3, 4>>, <<3, 5>>}

UnameResults == {<<"fail">>} \cup {<<"release", r[1], r[2]>> : r \in Releases}

\* read_int_file: -1 when the file cannot be opened, FATAL() when no
\* integer can be scanned from it.
read_int_file(file) ==
    [fatal |-> file = <<"garbage">>,
     val |-> IF file[1] = "int" THEN file[2] ELSE -1]

KERNEL_VERSION(a, b, c) == a * 65536 + b * 256 + c

\* The two tests on the kernel release in assert_prerequisites.
KernelUnsupportedAlwaysFilter(un, f) ==
    \/ KERNEL_VERSION(un[2], un[3], 0) < KERNEL_VERSION(3, 4, 0)
    \/ KERNEL_VERSION(un[2], un[3], 0) < KERNEL_VERSION(3, 5, 0)

KernelUnsupported(un, f) ==
    \/ KERNEL_VERSION(un[2], un[3], 0) < KERNEL_VERSION(3, 4, 0)
    \/ /\ f.use_syscall_buffer
       /\ KERNEL_VERSION(un[2], un[3], 0) < KERNEL_VERSION(3, 5, 0)

AssertPrerequisites ==
    /\ mpc = "prereq"
    /\ \E pf \in PtraceFiles :
        /\ ptrace_file' = pf
        /\ IF read_int_file(pf).fatal
           THEN Fatal("read_int_file") /\ UNCHANGED uname_release
           ELSE IF read_int_file(pf).val > 0
           THEN Fatal("assert_prerequisites") /\ UNCHANGED uname_release
           ELSE \E un \in UnameResults :
                /\ uname_release' = un
                /\ IF un # <<"fail">> /\ KernelUnsupported(un, flags)
                   THEN Fatal("assert_prerequisites")
                   ELSE /\ mpc' = "perf"
                        /\ UNCHANGED <<status, fatal_at>>
    /\ UNCHANGED <<argv, flags, argi, usage, affinity, env_syscallbuf,
                   session, libc_permutes>>
    /\ UNCHANGED dvars

\* check_performance_settings, unless the warnings are suppressed: it
\* warns, or ends the process when the governor file cannot be read.
CheckPerformanceSettings ==
    /\ mpc = "perf"
    /\ IF ~flags.suppress_performance_warnings
       THEN \E readable \in BOOLEAN :
                IF readable
                THEN mpc' = "wait" /\ UNCHANGED <<status, fatal_at>>
                ELSE Fatal("check_performance_settings")
       ELSE mpc' = "wait" /\ UNCHANGED <<status, fatal_at>>
    /\ UNCHANGED <<argv, flags, argi, usage, ptrace_file, uname_release,
                   affinity, env_syscallbuf, session, libc_permutes>>
    /\ UNCHANGED dvars

\* The wait of -w.
WaitSecs ==
    /\ mpc = "wait"
    /\ IF flags.wait_secs > 0
       THEN \E slept \in BOOLEAN :
                IF slept
                THEN mpc' = "pin" /\ UNCHANGED <<status, fatal_at>>
                ELSE Fatal("main")
       ELSE mpc' = "pin" /\ UNCHANGED <<status, fatal_at>>
    /\ UNCHANGED <<argv, flags, argi, usage, ptrace_file, uname_release,
                   affinity, env_syscallbuf, session, libc_permutes>>
    /\ UNCHANGED dvars

\* Whether main binds the process to CPU 0.
MustPinAlways(f) == TRUE

MustPin(f) == ~f.cpu_unbound

PinCpu ==
    /\ mpc = "pin"
    /\ IF MustPin(flags)
       THEN \E bound \in BOOLEAN :
                IF bound
                THEN /\ affinity' = "cpu0"
                     /\ mpc' = "setup"
                     /\ UNCHANGED <<status, fatal_at>>
                ELSE Fatal("main") /\ UNCHANGED affinity
       ELSE /\ mpc' = "setup"
            /\ UNCHANGED <<status, fatal_at, affinity>>
    /\ UNCHANGED <<argv, flags, argi, usage, ptrace_file, uname_release,
                   env_syscallbuf, session, libc_permutes>>
    /\ UNCHANGED dvars

\* The value of the syscall-buffer-enabled variable a recording leaves in
\* the environment.
RecordEnvNeverUnset(f, env) == IF f.use_syscall_buffer THEN "1" ELSE env

RecordEnv(f, env) == IF f.use_syscall_buffer THEN "1" ELSE "unset"

LibPath == <<"librrpreload.so">>

\* The setup of a recording, then start().
StartSession ==
    /\ mpc = "setup"
    /\ IF RECORD = flags.option
       THEN /\ env_syscallbuf' = RecordEnv(flags, env_syscallbuf)
            /\ flags' = [flags EXCEPT !.syscall_buffer_lib_path = LibPath]
       ELSE UNCHANGED <<env_syscallbuf, flags>>
    /\ IF flags.option \in {RECORD, REPLAY, DUMP_EVENTS}
       THEN /\ session' = flags.option
            /\ mpc' = "session"
            /\ UNCHANGED <<status, fatal_at>>
       ELSE Fatal("start") /\ UNCHANGED session
    /\ UNCHANGED <<argv, argi, usage, ptrace_file, uname_release, affinity,
                   libc_permutes>>
    /\ UNCHANGED dvars

\* The session runs to its end and start() returns: main returns 0.
SessionReturns ==
    /\ mpc = "session"
    /\ status' = "0"
    /\ mpc' = "exit"
    /\ UNCHANGED <<argv, flags, argi, fatal_at, usage, ptrace_file,
                   uname_release, affinity, env_syscallbuf, session,
                   libc_permutes>>
    /\ UNCHANGED dvars

\* The session ends the process (an unsupported event, a divergence).
SessionFatal ==
    /\ mpc = "session"
    /\ Fatal("session")
    /\ UNCHANGED <<argv, flags, argi, usage, ptrace_file, uname_release,
                   affinity, env_syscallbuf, session, libc_permutes>>
    /\ UNCHANGED dvars

(***************************************************************************)
(* The inputs of main: command lines.                                      *)
(***************************************************************************)
Opt(c) == <<"-", c>>
Word(w) == <<w>>

RECURSIVE Flatten(_)
Flatten(ss) == IF ss = <<>> THEN <<>> ELSE Head(ss) \o Flatten(Tail(ss))

\* The sequences of at most n of the items, each item some elements of argv.
OptSeqs(items, n) ==
    {Flatten(s) : s \in UNION {[1 .. k -> items] : k \in 0 .. n}}

CommonArgs == {<<>>, <<Opt("u")>>, <<Opt("s")>>, <<Opt("w"), Word("1")>>}

Positionals == {<<>>, <<Word("t")>>, <<Word("t"), Opt("r")>>}

\* The command lines built from the given options of each command.
CommandLines(n, common, rec, rep, dmp, posn) ==
    LET line(c, w, o, p) == <<Word("rr")>> \o c \o w \o o \o p IN
    {line(c, <<>>, <<>>, <<>>) : c \in common}
    \cup {line(c, <<Word(w)>>, <<>>, p) :
             c \in common, w \in {"help", "frob"}, p \in posn}
    \cup {line(c, <<Word("record")>>, o, p) :
             c \in common, o \in OptSeqs(rec, n), p \in posn}
    \cup {line(c, <<Word("replay")>>, o, p) :
             c \in common, o \in OptSeqs(rep, n), p \in posn}
    \cup {line(c, <<Word("dump")>>, o, p) :
             c \in common, o \in OptSeqs(dmp, n), p \in posn}

\* The options on the command lines that main runs through.
RecordItems ==
    {<<Opt("b")>>, <<Opt("n")>>, <<Opt("c"), Word("7")>>,
     <<Opt("e"), Word("0")>>, <<Opt("z")>>}

ReplayItems ==
    {<<Opt("a")>>, <<Opt("g"), Word("7")>>, <<Opt("s"), Word("7")>>,
     <<Opt("z")>>}

DumpItems == {<<Opt("r")>>, <<Opt("z")>>}

MainArgvs ==
    CommandLines(MaxOpts, CommonArgs, RecordItems, ReplayItems, DumpItems,
                 Positionals)
    \cup {<<Word("rr"), Word("check-preload-lib")>>}

\* The options on the command lines that parse_args alone is run on: the
\* numeric arguments are positive, zero, negative and no number, given
\* apart from the option or attached to it, and options are clustered.
NumArgs == {<<"7">>, <<"0">>, <<"-", "3">>, <<"x">>}

RichRecordItems ==
    {<<Opt("b")>>, <<Opt("n")>>, <<Opt("z")>>, <<<<"-", "n", "b">>>>,
     <<<<"-", "c", "1", "2">>>>}
    \cup {<<Opt("c"), a>> : a \in NumArgs}
    \cup {<<Opt("e"), a>> : a \in NumArgs}
    \cup {<<Opt("i"), a>> : a \in NumArgs \cup {<<"9", "9">>}}

RichReplayItems ==
    {<<Opt("a")>>, <<Opt("q")>>, <<Opt("z")>>, <<Opt("s"), Word("7")>>}
    \cup {<<Opt("g"), a>> : a \in {<<"7">>, <<"-", "3">>}}

ParseArgvs ==
    CommandLines(MaxParseOpts, {<<>>, <<Opt("u")>>, <<Opt("c"), Word("7")>>},
                 RichRecordItems, RichReplayItems, DumpItems,
                 {<<>>, <<Word("t")>>})

(***************************************************************************)
(* The specifications.                                                     *)
(***************************************************************************)
HasDump(av) == \E k \in 1 .. Len(av) : av[k] = <<"dump">>

\* No dump session is modelled while main is.
DumpIdle ==
    /\ frames = <<>>
    /\ pos = 0
    /\ out = <<>>
    /\ dargv = <<>>
    /\ di = 0
    /\ dpc = "idle"

\* The process at the entry of main, on one of the command lines.
MainInitOn(argvs) ==
    /\ argv \in argvs
    /\ flags = ZeroFlags
    /\ argi = 0
    /\ mpc = "entry"
    /\ status = "running"
    /\ fatal_at = "none"
    /\ usage = FALSE
    /\ ptrace_file = <<"unread">>
    /\ uname_release = <<"unread">>
    /\ affinity = "any"
    /\ env_syscallbuf \in {"unset", "1"}
    /\ session = "none"
    /\ libc_permutes \in (IF HasDump(argv) THEN BOOLEAN ELSE {FALSE})

\* main is not modelled while a dump session is.
MainIdle ==
    /\ argv = <<>>
    /\ flags = ZeroFlags
    /\ argi = 0
    /\ mpc = "idle"
    /\ status = "running"
    /\ fatal_at = "none"
    /\ usage = FALSE
    /\ ptrace_file = <<"unread">>
    /\ uname_release = <<"unread">>
    /\ affinity = "any"
    /\ env_syscallbuf = "unset"
    /\ session = "none"
    /\ libc_permutes = FALSE

\* main, from its entry to the end of the process.
Init == MainInitOn(MainArgvs) /\ DumpIdle

Next ==
    \/ CheckPreloadLib
    \/ MainParseArgs
    \/ MainCheckArgs
    \/ AssertPrerequisites
    \/ CheckPerformanceSettings
    \/ WaitSecs
    \/ PinCpu
    \/ StartSession
    \/ SessionReturns
    \/ SessionFatal

Spec == Init /\ [][Next]_vars

\* parse_args alone, on command lines with a wider choice of options.
ParseInit == MainInitOn(ParseArgvs) /\ DumpIdle

ParseNext == MainParseArgs

ParseArgsSpec == ParseInit /\ [][ParseNext]_vars

(***************************************************************************)
(* The inputs of the dump: traces and event specs.                         *)
(***************************************************************************)
\* Decimal formatting of a natural number (how a user writes a spec).
RECURSIVE FmtU(_)
FmtU(n) ==
    LET d == CHOOSE c \in Digits : DigitVal(c) = n % 10
    IN  IF n < 10 THEN <<d>> ELSE Append(FmtU(n \div 10), d)

RangeSpec(a, b) == FmtU(a) \o <<"-">> \o FmtU(b)

TimeVals == MinTime .. MaxTime
SpecNums == (MinTime - 1) .. (MaxTime + 1)

IsIncreasing(s) == \A i \in 1 .. Len(s) - 1 : s[i] < s[i + 1]

\* Traces: global_time is strictly increasing from frame to frame.
Traces ==
    {s \in UNION {[1 .. n -> TimeVals] : n \in 0 .. MaxFrames} : IsIncreasing(s)}

\* Event specs: a number, a range, a reversed range, and malformed text.
SpecStrings ==
    {FmtU(n) : n \in SpecNums}
    \cup {RangeSpec(p[1], p[2]) : p \in {q \in SpecNums \X SpecNums : q[1] <= q[2]}}
    \cup {RangeSpec(MaxTime, MinTime)}
    \cup {<<>>, <<"x">>, <<"9", "-">>, <<"-", "9">>}

TraceDir == <<"t">>

DumpArgvs ==
    {<<TraceDir>> \o s : s \in UNION {[1 .. n -> SpecStrings] : n \in 0 .. MaxSpecs}}

\* start_dumping on a trace, with the event specs of a command line.
DumpInit ==
    /\ frames \in Traces
    /\ dargv \in DumpArgvs
    /\ pos = 0
    /\ out = <<>>
    /\ di = 0
    /\ dpc = "start"
    /\ MainIdle

DumpNext == StartDumping \/ DumpSpecArg \/ FinishDumping

DumpSpec == DumpInit /\ [][DumpNext]_vars

(***************************************************************************)
(* Properties of the dump.                                                 *)
(***************************************************************************)
\* The frames of fs with a <= global_time <= b, in trace order.
KeepRange(fs, a, b) == SelectSeq(fs, LAMBDA t : a <= t /\ t <= b)

\* What a dump of the whole trace with no spec outputs.
UnfilteredDump(fs) == dump_events_matching(fs, 0, <<>>, NullSpec).out

SeqRange(s) == {s[i] : i \in 1 .. Len(s)}

\* C1: with the single spec 'a-b', a <= b, the dump outputs exactly the
\* frames with a <= global_time <= b, each once and in trace order: the
\* unfiltered dump with only the frames in [a,b] kept.
C1_RangeFilter ==
    \A a, b \in SpecNums :
        (a <= b /\ dpc = "done" /\ dargv = <<TraceDir, RangeSpec(a, b)>>)
        => /\ out = KeepRange(frames, a, b)
           /\ out = KeepRange(UnfilteredDump(frames), a, b)

\* A finished dump with a two-digit range spec that keeps two frames of a
\* three-frame trace.
C1_Witness ==
    \E a, b \in SpecNums :
        /\ a < b
        /\ b >= 10
        /\ dpc = "done"
        /\ dargv = <<TraceDir, RangeSpec(a, b)>>
        /\ Len(frames) = 3
        /\ Len(out) = 2
        /\ out[1] = a

\* C2: with the single spec 'N', the number of a frame of the trace, the
\* dump outputs that frame and no other.
C2_SingleEvent ==
    \A n \in SpecNums :
        (dpc = "done" /\ dargv = <<TraceDir, FmtU(n)>> /\ n \in SeqRange(frames))
        => out = <<n>>

\* A finished dump of the middle frame of a three-frame trace.
C2_Witness ==
    \E n \in SpecNums :
        /\ dpc = "done"
        /\ dargv = <<TraceDir, FmtU(n)>>
        /\ Len(frames) = 3
        /\ frames[2] = n
        /\ out = <<n>>

\* The interval a well-formed spec denotes: 'N' is [N,N], 'A-B' is [A,B].
Denotes(spec, a, b) == spec = RangeSpec(a, b) \/ (a = b /\ spec = FmtU(a))

WellFormedSpec(spec) ==
    \E a, b \in SpecNums : a <= b /\ Denotes(spec, a, b)

Interval(spec) ==
    CHOOSE p \in SpecNums \X SpecNums : p[1] <= p[2] /\ Denotes(spec, p[1], p[2])

\* The specs of the command line, dargv[2 ..].
EventSpecs == SubSeq(dargv, 2, Len(dargv))

DisjointIncreasing(specs) ==
    /\ \A i \in 1 .. Len(specs) : WellFormedSpec(specs[i])
    /\ \A i \in 1 .. Len(specs) - 1 :
           Interval(specs[i])[2] < Interval(specs[i + 1])[1]

MatchesAny(specs, t) ==
    \E i \in 1 .. Len(specs) :
        Interval(specs[i])[1] <= t /\ t <= Interval(specs[i])[2]

\* C3: with several specs that are pairwise disjoint and increasing
\* (adjacent ones included), the dump has a line for every frame that
\* matches any of the specs.
C3_NoMatchSkipped ==
    (dpc = "done" /\ Len(EventSpecs) >= 1 /\ DisjointIncreasing(EventSpecs))
    => \A t \in SeqRange(frames) :
           MatchesAny(EventSpecs, t) => t \in SeqRange(out)

(***************************************************************************)
(* Properties of parse_args and main.                                      *)
(***************************************************************************)
\* The command line holds element e.
HasArg(e) == \E k \in 2 .. Len(argv) : argv[k] = e

\* Option o is followed by its argument a.
HasOptArg(o, a) ==
    \E k \in 2 .. Len(argv) - 1 : argv[k] = o /\ argv[k + 1] = a

\* parse_args has returned, with success, for the given command.
ParsedFor(option) == mpc = "parsed" /\ argi >= 0 /\ flags.option = option

\* C4: after parse_args succeeds for a record command, whatever -c and -e
\* options were given, max_rbc and max_events are both at least 1.
C4_BudgetsAtLeastOne ==
    ParsedFor(RECORD) => flags.max_rbc >= 1 /\ flags.max_events >= 1

\* A record command line with a negative -c and a non-numeric -e, parsed.
C4_Witness ==
    /\ ParsedFor(RECORD)
    /\ HasOptArg(Opt("c"), <<"-", "3">>)
    /\ HasOptArg(Opt("e"), <<"x">>)
    /\ flags.max_rbc = 1
    /\ flags.max_events = 1

CommandWords == {Word("record"), Word("replay"), Word("dump")}

\* The command line names none of the three commands.
LacksCommand == \A k \in 2 .. Len(argv) : argv[k] \notin CommandWords

\* Nothing of the startup has happened: no prerequisite was looked at, the
\* affinity is as inherited, no session was started.
NothingStarted ==
    /\ ptrace_file = <<"unread">>
    /\ uname_release = <<"unread">>
    /\ affinity = "any"
    /\ session = "none"

\* C5: main returns 0 exactly when the selected session was started and
\* ran to completion; when parsing fails, no command is given, or the
\* command is unknown or help, main prints the usage and returns 1, and
\* nothing of the startup has happened.
C5_ExitStatus ==
    /\ status = "0" => session = flags.option /\ session # "none"
    /\ (mpc = "exit" /\ session # "none") => status \in {"0", "fatal"}
    /\ (mpc \notin {"entry", "idle"} /\ LacksCommand /\ status # "EX_CONFIG")
       => argi < 0
    /\ (mpc = "exit" /\ argi < 0)
       => usage /\ status = "1" /\ NothingStarted
    /\ status = "1" => usage /\ NothingStarted

\* main has returned 0 after a recording.
C5_Witness == mpc = "exit" /\ status = "0" /\ session = RECORD

\* The release uname reported is older than major.minor.
ReleaseBelow(major, minor) ==
    /\ uname_release[1] = "release"
    /\ \/ uname_release[2] < major
       \/ uname_release[2] = major /\ uname_release[3] < minor

\* A prerequisite that was looked at is unmet.
PrerequisiteUnmet ==
    \/ ptrace_file[1] = "int" /\ ptrace_file[2] > 0
    \/ ReleaseBelow(3, 4)
    \/ flags.use_syscall_buffer /\ ReleaseBelow(3, 5)

\* An unmet prerequisite ends the process in assert_prerequisites, before
\* any session.
UnmetIsFatal ==
    PrerequisiteUnmet
    => status = "fatal" /\ fatal_at = "assert_prerequisites" /\ session = "none"

\* A recording without syscall buffering (-n) on a 3.4 kernel, with
\* ptrace_scope unreadable or not above 0.
RecordOn34 ==
    /\ flags.option = RECORD
    /\ ~flags.use_syscall_buffer
    /\ HasArg(Opt("n"))
    /\ uname_release = <<"release", 3, 4>>
    /\ ptrace_file \in {<<"absent">>, <<"int", 0>>}

\* C6 as stated: an unmet prerequisite is fatal in assert_prerequisites
\* before any session, and a recording with -n on a 3.4 kernel passes the
\* check and reaches start().
C6_AsStated ==
    /\ UnmetIsFatal
    /\ (RecordOn34 /\ mpc = "exit") => session = RECORD

\* C6: an unmet prerequisite is fatal in assert_prerequisites before any
\* session; a recording with -n on a 3.4 kernel passes the check, and
\* reaches start() unless a later step of the startup (the read of the
\* frequency governor, the wait, the binding to CPU 0) ends the process.
C6_Prerequisites ==
    /\ UnmetIsFatal
    /\ RecordOn34
       => /\ fatal_at \notin {"assert_prerequisites", "read_int_file"}
          /\ mpc \notin {"prereq", "parsed", "entry"}
          /\ mpc = "exit"
             => \/ session = RECORD
                \/ fatal_at \in {"check_performance_settings", "main"}

\* A recording with -n on a 3.4 kernel has reached start().
C6_Witness == RecordOn34 /\ mpc = "session" /\ session = RECORD

\* The elements of the command line before its command word.
RECURSIVE CommonPart(_)
CommonPart(av) ==
    IF av = <<>> \/ Head(av) \in CommandWords \cup {Word("help"), Word("frob")}
    THEN {}
    ELSE {Head(av)} \cup CommonPart(Tail(av))

GivenU == Opt("u") \in CommonPart(Tail(argv))

\* C7: unless -u was given, a record or replay session starts only after
\* the process was bound to CPU 0 (a failed binding ends the process, so
\* no session starts); with -u the affinity is left as it was.
C7_Pinned ==
    /\ (session \in {RECORD, REPLAY} /\ ~GivenU) => affinity = "cpu0"
    /\ GivenU => affinity = "any"
    /\ (status = "fatal" /\ fatal_at = "main") => session = "none"

\* A replay session started by a process bound to CPU 0.
C7_Witness ==
    session = REPLAY /\ ~GivenU /\ affinity = "cpu0" /\ mpc = "session"

Max(S) == CHOOSE x \in S : \A y \in S : y <= x

\* What the last of -b and -n on the command line asks for; buffering is
\* enabled when there is neither.
LastBN ==
    LET ks == {k \in 2 .. Len(argv) : argv[k] \in {Opt("b"), Opt("n")}}
    IN  IF ks = {} THEN TRUE ELSE argv[Max(ks)] = Opt("b")

\* C8: syscall buffering is enabled by default and decided by the last of
\* -b and -n; when a record session starts, the syscall-buffer-enabled
\* variable is "1" if and only if use_syscall_buffer is true and is unset
\* otherwise, and the preload library path is set in both cases.
C8_SyscallBufferEnv ==
    session = RECORD
    => /\ flags.use_syscall_buffer = LastBN
       /\ env_syscallbuf = "1" <=> flags.use_syscall_buffer
       /\ ~flags.use_syscall_buffer => env_syscallbuf = "unset"
       /\ flags.syscall_buffer_lib_path # <<>>

\* A record session started with -b then -n: the variable is unset.
C8_Witness ==
    /\ session = RECORD
    /\ \E k \in 2 .. Len(argv) - 1 : argv[k] = Opt("b") /\ argv[k + 1] = Opt("n")
    /\ env_syscallbuf = "unset"
    /\ flags.syscall_buffer_lib_path = LibPath

\* main is past its test on argi.
PastCheckArgs == mpc \notin {"entry", "parsed", "idle"} /\ status # "EX_CONFIG"

Rejected == usage /\ status = "1" /\ mpc = "exit" /\ session = "none"

\* C9: a replay command with no positional argument is accepted; a record
\* or dump command with none is rejected: main prints the usage and
\* returns 1 without starting the session.
C9_PositionalArgs ==
    (PastCheckArgs /\ argi >= 0 /\ argi = argc)
    => /\ flags.option = REPLAY => ~usage /\ status # "1"
       /\ flags.option # REPLAY => Rejected
       /\ argv[argc] \in {Word("record"), Word("dump")} => Rejected
       /\ argv[argc] = Word("replay") => ~Rejected

\* `rr replay' has started a replay session.
C9_Witness ==
    /\ argv = <<Word("rr"), Word("replay")>>
    /\ session = REPLAY
    /\ mpc = "session"

\* C10: if -a is among the replay options, then when the replay session
\* starts the debugger is not launched and goto_event is the maximum,
\* whatever the order of -a, -g and -s.
C10_AutopilotWins ==
    (session = REPLAY /\ HasArg(Opt("a")))
    => flags.dont_launch_debugger /\ flags.goto_event = GotoEventMax

\* The places of the -i options on the command line.
IgnoreSigOpts == {k \in 2 .. Len(argv) - 1 : argv[k] = Opt("i")}

\* The signal number an argument of -i stands for: the arguments that are
\* no number, or a number below 1, stand for 1, and those above the last
\* signal for the last signal.
SigOfArg(a) ==
    CASE a = <<"7">> -> 7
      [] a = <<"9", "9">> -> NSIG - 1
      [] OTHER -> 1

\* C11: after parsing the -i options of a record command (with zero,
\* negative, oversized or non-numeric arguments), ignore_sig is a signal
\* number in 1 .. _NSIG-1, and the last -i given determines it.
C11_IgnoreSigRange ==
    (ParsedFor(RECORD) /\ IgnoreSigOpts # {})
    => /\ flags.ignore_sig \in 1 .. NSIG - 1
       /\ flags.ignore_sig = SigOfArg(argv[Max(IgnoreSigOpts) + 1])

\* A record command line with -i 7 then -i 99, parsed: the last signal.
C11_Witness ==
    /\ ParsedFor(RECORD)
    /\ Cardinality(IgnoreSigOpts) = 2
    /\ argv[Max(IgnoreSigOpts) + 1] = <<"9", "9">>
    /\ HasOptArg(Opt("i"), <<"7">>)
    /\ flags.ignore_sig = NSIG - 1

====
